---- MODULE Spec2Model ----
(***************************************************************************)
(* Dependency cache of setup-java (src/cache.ts): restore() computes the   *)
(* primary key from the dependency files and persists it, save() reads the *)
(* persisted keys back and decides whether to upload.                      *)
(*                                                                         *)
(* Strings are modelled as sequences of tokens.  A glob pattern is one     *)
(* token: the sequence of its path segments ("**/pom.xml" is               *)
(* <<"**", "pom.xml">>).  The newline and the blank are tokens of their    *)
(* own.  A cache key is the sequence of its "-"-separated components, the  *)
(* empty string is <<>>.                                                   *)
(***************************************************************************)
EXTENDS Naturals, Sequences, FiniteSets

(* ---------------------------- bounds ----------------------------------- *)

\* number of restore/save calls recorded in one job
MaxCalls == 2
\* number of edits of the working tree during one job
MaxEdits == 1
\* distinct contents a file may have (0 is "file absent")
MaxContent == 2
\* number of cache entries earlier jobs left in the artifact store
MaxForeign == 1

(* ---------------------------- constants -------------------------------- *)

STATE_CACHE_PRIMARY_KEY == "cache-primary-key"
CACHE_MATCHED_KEY == "cache-matched-key"
CACHE_KEY_PREFIX == "setup-java"

NL == <<"\n">>
SP == <<" ">>
EmptyString == <<>>

\* values of process.env['RUNNER_OS'] tried; "macOS" is the third a hosted
\* runner sets, and differs from "Linux" in getCoursierCachePath only
Platforms == {"Linux", "Windows"}

\* os.type() of the runner
osType(platform) ==
  IF platform = "Linux" THEN "Linux"
  ELSE IF platform = "macOS" THEN "Darwin"
  ELSE "Windows_NT"

getCoursierCachePath(os) ==
  IF os = "Linux" THEN "~/.cache/coursier"
  ELSE IF os = "Darwin" THEN "~/Library/Caches/Coursier"
  ELSE "~/AppData/Local/Coursier/Cache"

\* a one-token string holding one glob pattern
Pat(segs) == <<segs>>

supportedPackageManager(os) ==
  << [id |-> "maven",
      path |-> <<"~/.m2/repository">>,
      pattern |-> << Pat(<<"**", "pom.xml">>) >>],
     [id |-> "gradle",
      path |-> <<"~/.gradle/caches">>,
      pattern |-> << Pat(<<"gradle", "wrapper", "gradle-wrapper.properties">>),
                     Pat(<<"gradle.properties*">>),
                     Pat(<<"settings.gradle*">>) >>],
     [id |-> "sbt",
      path |-> <<"~/.ivy2/cache", "~/.sbt", getCoursierCachePath(os),
                 "!~/.sbt/*.lock", "!~/**/ivydata-*.properties">>,
      pattern |-> << Pat(<<"**", "*.sbt">>),
                     Pat(<<"**", "project", "build.properties">>),
                     Pat(<<"**", "project", "**.scala">>),
                     Pat(<<"**", "project", "**.sbt">>) >>] >>

\* the package manager record, or NoPackageManager when find() is undefined
NoPackageManager == [id |-> "undefined", path |-> <<>>, pattern |-> <<>>]

\* findPackageManager falling back to the first package manager
findPackageManager_default(id, os) ==
  LET pms == supportedPackageManager(os)
      hits == {i \in 1..Len(pms) : pms[i].id = id}
  IN IF hits = {} THEN pms[1]
     ELSE pms[CHOOSE i \in hits : \A j \in hits : i <= j]

findPackageManager(id, os) ==
  LET pms == supportedPackageManager(os)
      hits == {i \in 1..Len(pms) : pms[i].id = id}
  IN IF hits = {} THEN NoPackageManager
     ELSE pms[CHOOSE i \in hits : \A j \in hits : i <= j]

(* ---------------------------- state ------------------------------------ *)

VARIABLES
  inputs,     \* the job: package manager id, cache-dependency-path, checkout
  runnerOs,   \* process.env['RUNNER_OS']
  files,      \* the working tree: content of every path, 0 when absent
  entries,    \* the keys stored in the artifact store
  state,      \* the persisted state: what core.saveState wrote, as core.getState
              \* of the job's later calls reads it
  output,     \* the cache-hit output, "unset" until core.setOutput
  calls,      \* the last two restore/save calls of the job, oldest first
  ncalls,     \* number of restore/save calls so far
  nedits,     \* number of edits of the working tree so far
  procs,      \* the save calls of jobs running side by side: where each one
              \* is, the persisted state it reads and what the store answered
  reserved    \* the keys reserved in the artifact store

vars == <<inputs, runnerOs, files, entries, state, output, calls, ncalls, nedits,
          procs, reserved>>

(* ---------------------------- strings ---------------------------------- *)

IsSpace(tok) == tok = NL \/ tok = SP

RECURSIVE trimStart(_)
trimStart(s) ==
  IF s = <<>> THEN <<>>
  ELSE IF IsSpace(Head(s)) THEN trimStart(Tail(s)) ELSE s

RECURSIVE trimEnd(_)
trimEnd(s) ==
  IF s = <<>> THEN <<>>
  ELSE IF IsSpace(s[Len(s)]) THEN trimEnd(SubSeq(s, 1, Len(s) - 1)) ELSE s

trim(s) == trimEnd(trimStart(s))

\* String.prototype.split('\n'): the empty string splits into [''].
RECURSIVE splitNL(_, _)
splitNL(s, cur) ==
  IF s = <<>> THEN <<cur>>
  ELSE IF Head(s) = NL THEN <<cur>> \o splitNL(Tail(s), <<>>)
  ELSE splitNL(Tail(s), Append(cur, Head(s)))

split(s) == splitNL(s, <<>>)

\* Array.prototype.join('\n')
RECURSIVE join(_)
join(arr) ==
  IF arr = <<>> THEN <<>>
  ELSE IF Len(arr) = 1 THEN arr[1]
  ELSE arr[1] \o <<NL>> \o join(Tail(arr))

(* ---------------------------- working tree ----------------------------- *)

\* the files a working tree may hold, in the order a traversal visits them
AllPaths ==
  << <<"build.gradle">>,
     <<"build.gradle.kts">>,
     <<"build.sbt">>,
     <<"gradle", "libs.versions.toml">>,
     <<"gradle", "wrapper", "gradle-wrapper.properties">>,
     <<"pom.xml">>,
     <<"project", "DependenciesV1.scala">>,
     <<"project", "DependenciesV2.scala">>,
     <<"settings.gradle">>,
     <<"sub-project1", "build.gradle.kts">> >>

Paths == {AllPaths[i] : i \in 1..Len(AllPaths)}

(* ---------------------------- @actions/glob ---------------------------- *)

\* segment patterns holding a wildcard, with the segments they match
WildMatch ==
  { <<"gradle.properties*", "gradle.properties">>,
    <<"settings.gradle*", "settings.gradle">>,
    <<"settings.gradle*", "settings.gradle.kts">>,
    <<"*.gradle*", "build.gradle">>,
    <<"*.gradle*", "build.gradle.kts">>,
    <<"*.gradle*", "settings.gradle">>,
    <<"*.gradle*", "settings.gradle.kts">>,
    <<"*.sbt", "build.sbt">>,
    <<"**.sbt", "build.sbt">>,
    <<"**.scala", "DependenciesV1.scala">>,
    <<"**.scala", "DependenciesV2.scala">> }

Wildcards == {w[1] : w \in WildMatch}

SegMatch(p, seg) ==
  IF p \in Wildcards THEN <<p, seg>> \in WildMatch ELSE p = seg

\* a pattern (sequence of segment patterns) against a path (sequence of segments)
RECURSIVE MatchSegs(_, _)
MatchSegs(pat, path) ==
  IF pat = <<>> THEN path = <<>>
  ELSE IF Head(pat) = "**"
    THEN \/ MatchSegs(Tail(pat), path)
         \/ path # <<>> /\ MatchSegs(pat, Tail(path))
  ELSE /\ path # <<>>
       /\ SegMatch(Head(pat), Head(path))
       /\ MatchSegs(Tail(pat), Tail(path))

\* a match of a directory brings its descendants (implicitDescendants)
Matches(pat, path) ==
  \E n \in 1..Len(path) : MatchSegs(pat, SubSeq(path, 1, n))

RECURSIVE trimBlanks(_)
trimBlanks(line) ==
  IF line = <<>> THEN <<>>
  ELSE IF Head(line) = SP THEN trimBlanks(Tail(line))
  ELSE IF line[Len(line)] = SP THEN trimBlanks(SubSeq(line, 1, Len(line) - 1))
  ELSE line

\* the glob patterns of a newline-separated pattern string: blank lines dropped
globPatterns(str) ==
  LET lines == split(str)
  IN { trimBlanks(lines[i]) : i \in 1..Len(lines) } \ {<<>>}

\* a line of one token is that glob; a line with inner blanks matches no file here
lineMatches(line, path) == Len(line) = 1 /\ Matches(line[1], path)

RECURSIVE contentsOf(_, _, _)
contentsOf(pats, fs, i) ==
  IF i > Len(AllPaths) THEN <<>>
  ELSE LET p == AllPaths[i]
           hit == fs[p] # 0 /\ \E l \in pats : lineMatches(l, p)
       IN (IF hit THEN <<fs[p]>> ELSE <<>>) \o contentsOf(pats, fs, i + 1)

\* hashFiles digesting which files matched, not what they hold
hashFiles_names(str, fs) ==
  contentsOf(globPatterns(str), [p \in Paths |-> IF fs[p] # 0 THEN 1 ELSE 0], 1)

\* glob.hashFiles: an injective digest of the matched files' contents in
\* traversal order; the empty string when no file matched
hashFiles(str, fs) == contentsOf(globPatterns(str), fs, 1)

(* ---------------------------- the cache key ---------------------------- *)

Truthy(b) == b = "true"

\* effectivePattern adding the override to the default patterns
effectivePattern_merged(packageManager, cacheDependencyPath) ==
  IF cacheDependencyPath # EmptyString
    THEN split(trim(cacheDependencyPath)) \o packageManager.pattern
    ELSE packageManager.pattern

\* computeCacheKey, lines 88-90: the effective pattern array
effectivePattern(packageManager, cacheDependencyPath) ==
  IF cacheDependencyPath # EmptyString
    THEN split(trim(cacheDependencyPath))
    ELSE packageManager.pattern

\* an Error: its name, its message in chunks, and the pattern array it quotes
Err(name, message, pattern) ==
  [name |-> name, message |-> message, pattern |-> pattern]

NoError == Err("none", <<>>, <<>>)

NoFileError(pattern) ==
  Err("Error",
      <<"No file in ", "<cwd>", " matched to [", "<pattern>",
        "], make sure you have checked out the target repository">>,
      pattern)

UnknownPackageManagerError(id) ==
  Err("Error", <<"unknown package manager specified: ", id>>, <<>>)

\* computeCacheKey stamping the key with the number of calls made so far
computeCacheKey_stamped(packageManager, cacheDependencyPath, platform, fs) ==
  LET pattern == effectivePattern(packageManager, cacheDependencyPath)
      fileHash == hashFiles(join(pattern), fs)
  IN IF fileHash = EmptyString
       THEN [key |-> EmptyString, hashArg |-> join(pattern),
             error |-> NoFileError(pattern)]
       ELSE [key |-> <<CACHE_KEY_PREFIX, platform, packageManager.id,
                       Append(fileHash, ncalls)>>,
             hashArg |-> join(pattern), error |-> NoError]

\* computeCacheKey building a key around an empty hash
computeCacheKey_emptyHash(packageManager, cacheDependencyPath, platform, fs) ==
  LET pattern == effectivePattern(packageManager, cacheDependencyPath)
      fileHash == hashFiles(join(pattern), fs)
  IN [key |-> <<CACHE_KEY_PREFIX, platform, packageManager.id, fileHash>>,
      hashArg |-> join(pattern), error |-> NoError]

\* [key, hashArg, error]: the key, or the error thrown at line 93
computeCacheKey(packageManager, cacheDependencyPath, platform, fs) ==
  LET pattern == effectivePattern(packageManager, cacheDependencyPath)
      fileHash == hashFiles(join(pattern), fs)
  IN IF fileHash = EmptyString
       THEN [key |-> EmptyString, hashArg |-> join(pattern),
             error |-> NoFileError(pattern)]
       ELSE [key |-> <<CACHE_KEY_PREFIX, platform, packageManager.id, fileHash>>,
             hashArg |-> join(pattern), error |-> NoError]

\* the single restore key of line 117
fallbackKey(packageManager, platform) ==
  <<CACHE_KEY_PREFIX, platform, packageManager.id>>

(* ---------------------------- @actions/cache --------------------------- *)

IsPrefix(pre, key) ==
  Len(pre) <= Len(key) /\ SubSeq(key, 1, Len(pre)) = pre

ReserveCacheError ==
  Err("ReserveCacheError",
      <<"Unable to reserve cache with key ", "<key>",
        ", another job may be creating this cache.">>, <<>>)

ValidationError == Err("ValidationError", <<"Validation failed">>, <<>>)

TarError ==
  Err("Error", <<"Tar failed with error: ", "The process failed with exit code 2">>, <<>>)

NetworkError == Err("Error", <<"Cache service responded with 503">>, <<>>)

\* the answers cache.restoreCache may give: the primary key when it is stored,
\* else an entry the restore key is a prefix of, else undefined; a lookup may
\* also come back empty or fail
restoreCacheAnswers(primaryKey, restoreKeys, stored) ==
  LET exact == IF primaryKey \in stored THEN {primaryKey} ELSE {}
      partial == {k \in stored :
                    \E i \in 1..Len(restoreKeys) : IsPrefix(restoreKeys[i], k)}
      found == IF exact # {} THEN exact ELSE partial
  IN {[matchedKey |-> k, error |-> NoError] : k \in found}
       \cup {[matchedKey |-> EmptyString, error |-> NoError]}
       \cup {[matchedKey |-> EmptyString, error |-> NetworkError]}

\* the answers cache.saveCache may give for a key: a cache id (-1 when the
\* toolkit swallowed a failure), or an error; an entry is only created for a
\* key that is not stored yet
saveCacheAnswers(key, stored) ==
  (IF key \in stored THEN {} ELSE {[cacheId |-> "0", error |-> NoError]})
    \cup {[cacheId |-> "-1", error |-> NoError]}
    \cup {[cacheId |-> "none", error |-> e] :
            e \in {ReserveCacheError, ValidationError, TarError}}

(* ---------------------------- effects of a call ------------------------ *)

Msg(text, key) == [text |-> text, key |-> key]

\* what one call did: the error it threw and the calls it made, in order
NoEffects ==
  [thrown |-> NoError, debug |-> <<>>, info |-> <<>>, warning |-> <<>>,
   stateReads |-> <<>>, stateWrites |-> <<>>, outputs |-> <<>>,
   hashCalls |-> <<>>, restoreCalls |-> <<>>, saveCalls |-> <<>>]

\* persisted state after a sequence of core.saveState calls
RECURSIVE applyState(_, _)
applyState(st, writes) ==
  IF writes = <<>> THEN st
  ELSE applyState([st EXCEPT ![Head(writes).name] = Head(writes).value],
                  Tail(writes))

\* the cache-hit output after a sequence of core.setOutput calls
applyOutput(out, sets) ==
  IF sets = <<>> THEN out ELSE sets[Len(sets)]

(* ---------------------------- restore ---------------------------------- *)

\* persistPrimaryKey writing the key only when a restore is requested
persistPrimaryKey_whenRestoring(performRestore, primaryKey) ==
  IF Truthy(performRestore)
    THEN << [name |-> STATE_CACHE_PRIMARY_KEY, value |-> primaryKey] >>
    ELSE <<>>

\* line 109: the primary key is persisted whatever performRestore is
persistPrimaryKey(performRestore, primaryKey) ==
  << [name |-> STATE_CACHE_PRIMARY_KEY, value |-> primaryKey] >>

\* restoreRequested ignoring performRestore
restoreRequested_always(performRestore) == TRUE

\* line 112
restoreRequested(performRestore) == Truthy(performRestore)

\* cacheHit reporting a hit for every match
cacheHit_anyMatch(matchedKey, primaryKey) == "true"

\* the value of cache-hit at line 121
cacheHit(matchedKey, primaryKey) ==
  IF matchedKey = primaryKey THEN "true" ELSE "false"

\* restoreOutcome not persisting the matched key
restoreOutcome_noMatchedKey(packageManager, primaryKey, matchedKey) ==
  IF matchedKey # EmptyString
    THEN [stateWrites |-> <<>>,
          outputs |-> << cacheHit(matchedKey, primaryKey) >>,
          info |-> << Msg(<<"Cache restored from key: ", "<key>">>, matchedKey) >>]
    ELSE [stateWrites |-> <<>>,
          outputs |-> << "false" >>,
          info |-> << Msg(<<packageManager.id, " cache is not found for key ", "<key>">>,
                          primaryKey) >>]

\* restoreOutcome leaving cache-hit unset when nothing matched
restoreOutcome_missUnset(packageManager, primaryKey, matchedKey) ==
  IF matchedKey # EmptyString
    THEN [stateWrites |-> << [name |-> CACHE_MATCHED_KEY, value |-> matchedKey] >>,
          outputs |-> << cacheHit(matchedKey, primaryKey) >>,
          info |-> << Msg(<<"Cache restored from key: ", "<key>">>, matchedKey) >>]
    ELSE [stateWrites |-> <<>>,
          outputs |-> <<>>,
          info |-> << Msg(<<packageManager.id, " cache is not found for key ", "<key>">>,
                          primaryKey) >>]

\* lines 119-126: what restore does with the answer of the artifact store
restoreOutcome(packageManager, primaryKey, matchedKey) ==
  IF matchedKey # EmptyString
    THEN [stateWrites |-> << [name |-> CACHE_MATCHED_KEY, value |-> matchedKey] >>,
          outputs |-> << cacheHit(matchedKey, primaryKey) >>,
          info |-> << Msg(<<"Cache restored from key: ", "<key>">>, matchedKey) >>]
    ELSE [stateWrites |-> <<>>,
          outputs |-> << "false" >>,
          info |-> << Msg(<<packageManager.id, " cache is not found for key ", "<key>">>,
                          primaryKey) >>]

\* the arguments of cache.restoreCache, lines 114-118
restoreCacheArgs(packageManager, primaryKey, platform) ==
  [paths |-> packageManager.path, primaryKey |-> primaryKey,
   restoreKeys |-> << fallbackKey(packageManager, platform) >>]

\* restore persisting the primary key only after the artifact store answered
restore_persistAfterAnswer(id, cacheDependencyPath, performRestore, platform, fs, answer) ==
  LET packageManager == findPackageManager(id, osType(platform))
      ck == computeCacheKey(packageManager, cacheDependencyPath, platform, fs)
      primaryKey == ck.key
      computed == [NoEffects EXCEPT
                     !.hashCalls = <<ck.hashArg>>,
                     !.debug = << Msg(<<"primary key is ", "<key>">>, primaryKey) >>,
                     !.stateWrites = persistPrimaryKey(performRestore, primaryKey)]
      asked == [computed EXCEPT
                  !.restoreCalls =
                     << restoreCacheArgs(packageManager, primaryKey, platform) >>]
      outcome == restoreOutcome(packageManager, primaryKey, answer.matchedKey)
  IN IF packageManager = NoPackageManager
       THEN [NoEffects EXCEPT !.thrown = UnknownPackageManagerError(id)]
     ELSE IF ck.error # NoError
       THEN [NoEffects EXCEPT !.hashCalls = <<ck.hashArg>>, !.thrown = ck.error]
     ELSE IF ~restoreRequested(performRestore)
       THEN computed
     ELSE IF answer.error # NoError
       THEN [asked EXCEPT !.stateWrites = <<>>, !.thrown = answer.error]
     ELSE [asked EXCEPT
             !.stateWrites = @ \o outcome.stateWrites,
             !.outputs = outcome.outputs,
             !.info = outcome.info]

\* restore(id, cacheDependencyPath, performRestore), lines 105-128;
\* answer is what cache.restoreCache gives when it is called
restore(id, cacheDependencyPath, performRestore, platform, fs, answer) ==
  LET packageManager == findPackageManager(id, osType(platform))
      ck == computeCacheKey(packageManager, cacheDependencyPath, platform, fs)
      primaryKey == ck.key
      computed == [NoEffects EXCEPT
                     !.hashCalls = <<ck.hashArg>>,
                     !.debug = << Msg(<<"primary key is ", "<key>">>, primaryKey) >>,
                     !.stateWrites = persistPrimaryKey(performRestore, primaryKey)]
      asked == [computed EXCEPT
                  !.restoreCalls =
                     << restoreCacheArgs(packageManager, primaryKey, platform) >>]
      outcome == restoreOutcome(packageManager, primaryKey, answer.matchedKey)
  IN IF packageManager = NoPackageManager
       THEN [NoEffects EXCEPT !.thrown = UnknownPackageManagerError(id)]
     ELSE IF ck.error # NoError
       THEN [NoEffects EXCEPT !.hashCalls = <<ck.hashArg>>, !.thrown = ck.error]
     ELSE IF ~restoreRequested(performRestore)
       THEN computed
     ELSE IF answer.error # NoError
       THEN [asked EXCEPT !.thrown = answer.error]
     ELSE [asked EXCEPT
             !.stateWrites = @ \o outcome.stateWrites,
             !.outputs = outcome.outputs,
             !.info = outcome.info]

(* ---------------------------- save ------------------------------------- *)

\* saveDecision without the check of the primary key
saveDecision_noKeyCheck(forceUpdate, primaryKey, matchedKey) ==
  IF ~Truthy(forceUpdate) /\ matchedKey = primaryKey THEN "hit" ELSE "save"

\* saveDecision without the check of the exact hit
saveDecision_noHitCheck(forceUpdate, primaryKey, matchedKey) ==
  IF ~Truthy(forceUpdate) /\ primaryKey = EmptyString THEN "warn" ELSE "save"

\* saveDecision skipping after any match, the fallback match included
saveDecision_anyMatch(forceUpdate, primaryKey, matchedKey) ==
  IF ~Truthy(forceUpdate)
    THEN IF primaryKey = EmptyString THEN "warn"
         ELSE IF matchedKey # EmptyString THEN "hit"
         ELSE "save"
    ELSE "save"

\* lines 141-152: "warn" and "hit" return before the artifact store is asked
saveDecision(forceUpdate, primaryKey, matchedKey) ==
  IF ~Truthy(forceUpdate)
    THEN IF primaryKey = EmptyString THEN "warn"
         ELSE IF matchedKey = primaryKey THEN "hit"
         ELSE "save"
    ELSE "save"

\* saveCacheArgs saving under the matched key
saveCacheArgs_matchedKey(packageManager, primaryKey, matchedKey) ==
  [paths |-> packageManager.path, key |-> matchedKey]

\* saveCacheArgs computing the key anew from the working tree
saveCacheArgs_recomputed(packageManager, primaryKey, matchedKey) ==
  [paths |-> packageManager.path,
   key |-> computeCacheKey(packageManager, inputs.path, runnerOs, files).key]

\* the arguments of cache.saveCache, line 154
saveCacheArgs(packageManager, primaryKey, matchedKey) ==
  [paths |-> packageManager.path, key |-> primaryKey]

startsWith(message, prefix) == message # <<>> /\ message[1] = prefix

\* isProbablyGradleDaemonProblem on every platform
isProbablyGradleDaemonProblem_anyPlatform(packageManager, error, platform) ==
  IF packageManager.id # "gradle"
    THEN FALSE
    ELSE startsWith(error.message, "Tar failed with error: ")

\* lines 178-190
isProbablyGradleDaemonProblem(packageManager, error, platform) ==
  IF packageManager.id # "gradle" \/ platform # "Windows"
    THEN FALSE
    ELSE startsWith(error.message, "Tar failed with error: ")

\* the warning of lines 163-165 (its quotation marks are left out)
GradleDaemonWarning ==
  Msg(<<"Failed to save Gradle cache on Windows. If tar.exe reported 'Permission denied', try to run Gradle with --no-daemon option. Refer to https://github.com/actions/cache/issues/454 for details.">>,
      EmptyString)

\* saveFailure without the ReserveCacheError branch
saveFailure_rethrowAll(packageManager, err, platform) ==
  [thrown |-> err, info |-> <<>>,
   warning |-> IF isProbablyGradleDaemonProblem(packageManager, err, platform)
                 THEN << GradleDaemonWarning >> ELSE <<>>]

\* lines 156-169: what save does with an error of cache.saveCache
saveFailure(packageManager, err, platform) ==
  IF err.name = ReserveCacheError.name
    THEN [thrown |-> NoError, info |-> << Msg(err.message, EmptyString) >>,
          warning |-> <<>>]
    ELSE [thrown |-> err, info |-> <<>>,
          warning |-> IF isProbablyGradleDaemonProblem(packageManager, err, platform)
                        THEN << GradleDaemonWarning >> ELSE <<>>]

\* save recording the saved key in the matched-key slot
save_marksSaved(id, forceUpdate, getState, platform, answer) ==
  LET packageManager == findPackageManager(id, osType(platform))
      matchedKey == getState[CACHE_MATCHED_KEY]
      primaryKey == getState[STATE_CACHE_PRIMARY_KEY]
      decision == saveDecision(forceUpdate, primaryKey, matchedKey)
      read == [NoEffects EXCEPT
                 !.stateReads = <<CACHE_MATCHED_KEY, STATE_CACHE_PRIMARY_KEY>>]
      asked == [read EXCEPT
                  !.saveCalls = << saveCacheArgs(packageManager, primaryKey, matchedKey) >>]
      failure == saveFailure(packageManager, answer.error, platform)
  IN IF packageManager = NoPackageManager
       THEN [NoEffects EXCEPT !.thrown = UnknownPackageManagerError(id)]
     ELSE IF decision = "warn"
       THEN [read EXCEPT
               !.warning = << Msg(<<"Error retrieving key from state.">>, EmptyString) >>]
     ELSE IF decision = "hit"
       THEN [read EXCEPT
               !.info = << Msg(<<"Cache hit occurred on the primary key ", "<key>",
                                 ", not saving cache.">>, primaryKey) >>]
     ELSE IF answer.error = NoError
       THEN [asked EXCEPT
               !.stateWrites = << [name |-> CACHE_MATCHED_KEY, value |-> primaryKey] >>,
               !.info = << Msg(<<"Cache saved with the key: ", "<key>">>, primaryKey) >>]
     ELSE [asked EXCEPT
             !.thrown = failure.thrown,
             !.info = failure.info,
             !.warning = failure.warning]

\* save(id, forceUpdate), lines 134-170; getState is the persisted state and
\* answer is what cache.saveCache gives when it is called
save(id, forceUpdate, getState, platform, answer) ==
  LET packageManager == findPackageManager(id, osType(platform))
      matchedKey == getState[CACHE_MATCHED_KEY]
      primaryKey == getState[STATE_CACHE_PRIMARY_KEY]
      decision == saveDecision(forceUpdate, primaryKey, matchedKey)
      read == [NoEffects EXCEPT
                 !.stateReads = <<CACHE_MATCHED_KEY, STATE_CACHE_PRIMARY_KEY>>]
      asked == [read EXCEPT
                  !.saveCalls = << saveCacheArgs(packageManager, primaryKey, matchedKey) >>]
      failure == saveFailure(packageManager, answer.error, platform)
  IN IF packageManager = NoPackageManager
       THEN [NoEffects EXCEPT !.thrown = UnknownPackageManagerError(id)]
     ELSE IF decision = "warn"
       THEN [read EXCEPT
               !.warning = << Msg(<<"Error retrieving key from state.">>, EmptyString) >>]
     ELSE IF decision = "hit"
       THEN [read EXCEPT
               !.info = << Msg(<<"Cache hit occurred on the primary key ", "<key>",
                                 ", not saving cache.">>, primaryKey) >>]
     ELSE IF answer.error = NoError
       THEN [asked EXCEPT
               !.info = << Msg(<<"Cache saved with the key: ", "<key>">>, primaryKey) >>]
     ELSE [asked EXCEPT
             !.thrown = failure.thrown,
             !.info = failure.info,
             !.warning = failure.warning]

(* ---------------------------- the job ---------------------------------- *)

\* values of performRestore; an omitted argument is undefined
RestoreFlags == {"true", "false", "undefined"}

\* values of forceUpdate
SaveFlags == {"true", "false"}

\* the jobs tried: the package manager id and the cache-dependency-path the
\* job passes to restore and save ("ant" is not a supported id), the working
\* tree it checks out, and the file its build steps may rewrite
Job(id, path, tree, edit) == [id |-> id, path |-> path, tree |-> tree, edit |-> edit]

JobInputs ==
  { Job("maven", EmptyString, {<<"pom.xml">>}, <<"pom.xml">>),
    Job("gradle", EmptyString, {<<"settings.gradle">>, <<"build.gradle">>},
        <<"settings.gradle">>),
    Job("gradle", EmptyString, {<<"build.gradle">>}, <<"build.gradle">>),
    Job("gradle", << SP, <<"build.gradle.kts">>, NL,
                     <<"sub-project1", "**", "*.gradle*">>, NL >>,
        {<<"build.gradle.kts">>, <<"sub-project1", "build.gradle.kts">>},
        <<"build.gradle.kts">>),
    Job("gradle", << <<"sub-project1", "**", "*.gradle*">>, NL >>,
        {<<"build.gradle.kts">>, <<"sub-project1", "build.gradle.kts">>},
        <<"sub-project1", "build.gradle.kts">>),
    Job("sbt", EmptyString, {<<"build.sbt">>, <<"project", "DependenciesV1.scala">>},
        <<"project", "DependenciesV2.scala">>),
    Job("ant", EmptyString, {<<"pom.xml">>}, <<"pom.xml">>) }

\* hashes of the entries earlier jobs may have stored
ForeignHashes == { <<1>>, <<2>> }

ForeignKeys(os) ==
  { <<CACHE_KEY_PREFIX, os, id, h>> : id \in {"maven", "gradle", "sbt"},
                                        h \in ForeignHashes }

EmptyState ==
  [n \in {STATE_CACHE_PRIMARY_KEY, CACHE_MATCHED_KEY} |-> EmptyString]

Init ==
  /\ inputs \in JobInputs
  /\ runnerOs \in Platforms
  /\ files = [p \in Paths |-> IF p \in inputs.tree THEN 1 ELSE 0]
  /\ entries \in {s \in SUBSET ForeignKeys(runnerOs) :
                     /\ Cardinality(s) <= MaxForeign
                     /\ \A k \in s : k[3] = inputs.id}
  /\ state = EmptyState
  /\ output = "unset"
  /\ calls = <<>>
  /\ ncalls = 0
  /\ nedits = 0
  /\ procs = <<>>
  /\ reserved = {}

NoRestoreAnswer == [matchedKey |-> EmptyString, error |-> NoError]
NoSaveAnswer == [cacheId |-> "none", error |-> NoError]

\* the record of one call: its arguments, what it found, what the artifact
\* store answered (when asked) and what the call did
Call(op, id, path, flag, answer, fx) ==
  [op |-> op, id |-> id, path |-> path, flag |-> flag, answer |-> answer,
   files |-> files,
   pre |-> state, preOutput |-> output,
   post |-> applyState(state, fx.stateWrites),
   postOutput |-> applyOutput(output, fx.outputs),
   fx |-> fx]

Record(call) ==
  /\ calls' = IF Len(calls) < 2 THEN Append(calls, call) ELSE <<calls[2], call>>
  /\ ncalls' = ncalls + 1
  /\ state' = call.post
  /\ output' = call.postOutput

Restore ==
  /\ ncalls < MaxCalls
  /\ \E performRestore \in RestoreFlags :
       LET id == inputs.id
           path == inputs.path
           dry == restore(id, path, performRestore, runnerOs, files, NoRestoreAnswer)
           answers ==
             IF dry.restoreCalls = <<>> THEN {NoRestoreAnswer}
             ELSE restoreCacheAnswers(dry.restoreCalls[1].primaryKey,
                                      dry.restoreCalls[1].restoreKeys, entries)
       IN \E answer \in answers :
            Record(Call("restore", id, path, performRestore, answer,
                        restore(id, path, performRestore, runnerOs, files, answer)))
  /\ UNCHANGED <<inputs, runnerOs, files, entries, nedits, procs, reserved>>

Save ==
  /\ ncalls < MaxCalls
  /\ \E forceUpdate \in SaveFlags :
       LET id == inputs.id
           dry == save(id, forceUpdate, state, runnerOs, NoSaveAnswer)
           answers ==
             IF dry.saveCalls = <<>> THEN {NoSaveAnswer}
             ELSE saveCacheAnswers(dry.saveCalls[1].key, entries)
       IN \E answer \in answers :
            /\ Record(Call("save", id, EmptyString, forceUpdate, answer,
                           save(id, forceUpdate, state, runnerOs, answer)))
            /\ entries' = IF answer.cacheId = "0"
                            THEN entries \cup {dry.saveCalls[1].key}
                            ELSE entries
  /\ UNCHANGED <<inputs, runnerOs, files, nedits, procs, reserved>>

\* the working tree changes between two calls of the job
EditFile ==
  /\ nedits < MaxEdits
  /\ 1 <= ncalls /\ ncalls < MaxCalls
  /\ \E c \in 0..MaxContent :
       /\ files[inputs.edit] # c
       /\ files' = [files EXCEPT ![inputs.edit] = c]
  /\ nedits' = nedits + 1
  /\ UNCHANGED <<inputs, runnerOs, entries, state, output, calls, ncalls,
                  procs, reserved>>

Next == Restore \/ Save \/ EditFile

Spec == Init /\ [][Next]_vars

(* ---------------------------- concurrent saves ------------------------- *)

\* the jobs that run save side by side against one artifact store
JobIds == {1, 2}

\* the store reserving a key whatever is reserved or stored
reserveCache_alwaysGranted(key, held, stored) == "granted"

\* the reservation cache.saveCache asks of the store before it uploads: a
\* key that is reserved or stored already is refused with ReserveCacheError
reserveCache(key, held, stored) ==
  IF key \in held \cup stored THEN "refused" ELSE "granted"

\* what an upload that does not store the cache gives: the id -1 when the
\* toolkit swallowed the failure, or an error
uploadFailures ==
  {[cacheId |-> "-1", error |-> NoError]}
    \cup {[cacheId |-> "none", error |-> e] : e \in {ValidationError, TarError}}

Proc(pc, forceUpdate, getState, answer, fx) ==
  [pc |-> pc, forceUpdate |-> forceUpdate, getState |-> getState,
   answer |-> answer, fx |-> fx]

\* the persisted states of a job whose restore computed the key and got no
\* exact hit: no match, or a match through the fallback key
HeldStates(primaryKey, stored) ==
  {[n \in {STATE_CACHE_PRIMARY_KEY, CACHE_MATCHED_KEY} |->
      IF n = STATE_CACHE_PRIMARY_KEY THEN primaryKey ELSE m] :
     m \in {EmptyString} \cup (stored \ {primaryKey})}

\* jobs of the same checkout on the same platform hold the same primary key
InitConcurrent ==
  /\ inputs \in JobInputs
  /\ runnerOs \in Platforms
  /\ files = [p \in Paths |-> IF p \in inputs.tree THEN 1 ELSE 0]
  /\ findPackageManager(inputs.id, osType(runnerOs)) # NoPackageManager
  /\ computeCacheKey(findPackageManager(inputs.id, osType(runnerOs)),
                     inputs.path, runnerOs, files).error = NoError
  /\ entries \in {s \in SUBSET ForeignKeys(runnerOs) :
                     /\ Cardinality(s) <= MaxForeign
                     /\ \A k \in s : k[3] = inputs.id}
  /\ reserved = {}
  /\ procs \in [JobIds ->
        {Proc("start", f, st, NoSaveAnswer, NoEffects) :
           f \in SaveFlags,
           st \in HeldStates(
                    computeCacheKey(findPackageManager(inputs.id, osType(runnerOs)),
                                    inputs.path, runnerOs, files).key,
                    entries)}]
  /\ state = EmptyState
  /\ output = "unset"
  /\ calls = <<>>
  /\ ncalls = 0
  /\ nedits = 0

\* the save call of job j as it would run if the store stayed silent
saveOf(j) ==
  save(inputs.id, procs[j].forceUpdate, procs[j].getState, runnerOs, NoSaveAnswer)

\* lines 135-154: save runs up to the await of cache.saveCache, or returns
SaveStart ==
  /\ \E j \in JobIds :
       /\ procs[j].pc = "start"
       /\ procs' = IF saveOf(j).saveCalls = <<>>
                     THEN [procs EXCEPT ![j].pc = "done", ![j].fx = saveOf(j)]
                     ELSE [procs EXCEPT ![j].pc = "reserve"]
  /\ UNCHANGED <<inputs, runnerOs, files, entries, state, output, calls, ncalls,
                  nedits, reserved>>

\* the store grants or refuses the reservation of the key
StoreReserve ==
  /\ \E j \in JobIds :
       LET key == saveOf(j).saveCalls[1].key
       IN /\ procs[j].pc = "reserve"
          /\ IF reserveCache(key, reserved, entries) = "granted"
               THEN /\ reserved' = reserved \cup {key}
                    /\ procs' = [procs EXCEPT ![j].pc = "upload"]
               ELSE /\ reserved' = reserved
                    /\ procs' = [procs EXCEPT
                                   ![j].pc = "answered",
                                   ![j].answer = [cacheId |-> "none",
                                                  error |-> ReserveCacheError]]
  /\ UNCHANGED <<inputs, runnerOs, files, entries, state, output, calls, ncalls,
                  nedits>>

\* the upload ends and the cache is stored under the key
StoreCommit ==
  /\ \E j \in JobIds :
       /\ procs[j].pc = "upload"
       /\ entries' = entries \cup {saveOf(j).saveCalls[1].key}
       /\ procs' = [procs EXCEPT
                      ![j].pc = "answered",
                      ![j].answer = [cacheId |-> "0", error |-> NoError]]
  /\ UNCHANGED <<inputs, runnerOs, files, state, output, calls, ncalls, nedits,
                  reserved>>

\* the upload fails; the reservation stays
StoreFail ==
  /\ \E j \in JobIds :
       /\ procs[j].pc = "upload"
       /\ \E answer \in uploadFailures :
            procs' = [procs EXCEPT ![j].pc = "answered", ![j].answer = answer]
  /\ UNCHANGED <<inputs, runnerOs, files, entries, state, output, calls, ncalls,
                  nedits, reserved>>

\* lines 155-169: save goes on after the await with the store's answer
SaveReturn ==
  /\ \E j \in JobIds :
       /\ procs[j].pc = "answered"
       /\ procs' = [procs EXCEPT
                      ![j].pc = "done",
                      ![j].fx = save(inputs.id, procs[j].forceUpdate,
                                     procs[j].getState, runnerOs, procs[j].answer)]
  /\ UNCHANGED <<inputs, runnerOs, files, entries, state, output, calls, ncalls,
                  nedits, reserved>>

NextConcurrent ==
  SaveStart \/ StoreReserve \/ StoreCommit \/ StoreFail \/ SaveReturn

SpecConcurrent == InitConcurrent /\ [][NextConcurrent]_vars

(* ---------------------------- properties ------------------------------- *)

SupportedIds ==
  {supportedPackageManager("Linux")[i].id : i \in 1..Len(supportedPackageManager("Linux"))}

Calls == {calls[i] : i \in 1..Len(calls)}

\* the save calls made for a supported package manager
Saves == {c \in Calls : c.op = "save" /\ c.id \in SupportedIds}

\* the restore calls that got past lookup and key computation
Restores == {c \in Calls : c.op = "restore" /\ c.fx.debug # <<>>}

RetrievingKeyWarning == Msg(<<"Error retrieving key from state.">>, EmptyString)

CacheSavedInfo(key) == Msg(<<"Cache saved with the key: ", "<key>">>, key)

\* C1: a save(id, false) that finds no persisted primary key does not ask the
\* artifact store to save, warns "Error retrieving key from state." and
\* returns without throwing.
C1_SaveWithoutPrimaryKeySkips ==
  \A c \in Saves :
    (~Truthy(c.flag) /\ c.pre[STATE_CACHE_PRIMARY_KEY] = EmptyString)
      => /\ c.fx.saveCalls = <<>>
         /\ c.fx.warning = <<RetrievingKeyWarning>>
         /\ c.fx.thrown = NoError

C1_Witness ==
  \E c \in Saves :
    /\ c.flag = "false"
    /\ c.pre[STATE_CACHE_PRIMARY_KEY] = EmptyString
    /\ ncalls = 1
    /\ c.fx.warning # <<>>

\* C2: a save(id, false) that finds the persisted matched key equal to the
\* non-empty persisted primary key returns without asking the artifact store.
C2_SaveAfterExactHitSkips ==
  \A c \in Saves :
    (/\ ~Truthy(c.flag)
     /\ c.pre[STATE_CACHE_PRIMARY_KEY] # EmptyString
     /\ c.pre[CACHE_MATCHED_KEY] = c.pre[STATE_CACHE_PRIMARY_KEY])
      => c.fx.saveCalls = <<>> /\ c.fx.thrown = NoError

C2_Witness ==
  \E c \in Saves :
    /\ c.flag = "false"
    /\ c.pre[STATE_CACHE_PRIMARY_KEY] # EmptyString
    /\ c.pre[CACHE_MATCHED_KEY] = c.pre[STATE_CACHE_PRIMARY_KEY]
    /\ c.fx.info # <<>>

\* C3: a save that finds the persisted matched key different from the
\* persisted primary key, or is forced, asks the artifact store exactly once,
\* with the package manager's cache paths and the persisted primary key; when
\* the store succeeds (the cache id -1 included) it logs "Cache saved with the
\* key: <primaryKey>" and warns nothing.
C3_SaveOnMissOrForced ==
  \A c \in Saves :
    (\/ c.pre[CACHE_MATCHED_KEY] # c.pre[STATE_CACHE_PRIMARY_KEY]
     \/ Truthy(c.flag))
      => /\ c.fx.saveCalls =
              << [paths |-> findPackageManager(c.id, osType(runnerOs)).path,
                  key |-> c.pre[STATE_CACHE_PRIMARY_KEY]] >>
         /\ c.answer.error = NoError
              => /\ c.fx.info = << CacheSavedInfo(c.pre[STATE_CACHE_PRIMARY_KEY]) >>
                 /\ c.fx.warning = <<>>
                 /\ c.fx.thrown = NoError

\* a fallback match was restored, and the unforced save's store answered -1
C3_Witness ==
  \E c \in Saves :
    /\ c.flag = "false"
    /\ c.pre[CACHE_MATCHED_KEY] # EmptyString
    /\ c.pre[CACHE_MATCHED_KEY] # c.pre[STATE_CACHE_PRIMARY_KEY]
    /\ c.answer.cacheId = "-1"
    /\ c.fx.info # <<>>

\* C4: a save that finds no persisted primary key is a no-op with a warning,
\* whatever forceUpdate is: the artifact store is not asked to save under an
\* empty key and nothing is thrown.
C4_SaveWithoutPrimaryKeyIsNoOp ==
  \A c \in Saves :
    c.pre[STATE_CACHE_PRIMARY_KEY] = EmptyString
      => /\ c.fx.saveCalls = <<>>
         /\ c.fx.warning = <<RetrievingKeyWarning>>
         /\ c.fx.thrown = NoError

\* the key restore computes from the job's inputs and the working tree
PrimaryKeyNow ==
  computeCacheKey(findPackageManager(inputs.id, osType(runnerOs)),
                  inputs.path, runnerOs, files)

LastCall == calls[Len(calls)]

\* C5: every restore that gets past lookup and key computation leaves the
\* key it computed from the working tree in the primary-key slot, whether
\* performRestore is true or false.
C5_RestorePersistsPrimaryKey ==
  [][ (/\ ncalls' = ncalls + 1
       /\ LastCall'.op = "restore"
       /\ findPackageManager(inputs.id, osType(runnerOs)) # NoPackageManager)
        => LET now == PrimaryKeyNow
           IN now.error = NoError
                => /\ state'[STATE_CACHE_PRIMARY_KEY] = now.key
                   /\ now.key # EmptyString
                   /\ LastCall'.post[STATE_CACHE_PRIMARY_KEY] = now.key ]_vars

\* a restore with performRestore false replaced the persisted primary key
C5_Witness ==
  \E c \in Restores :
    /\ c.flag = "false"
    /\ c.post[STATE_CACHE_PRIMARY_KEY] # EmptyString
    /\ c.post[STATE_CACHE_PRIMARY_KEY] # c.pre[STATE_CACHE_PRIMARY_KEY]

\* C6: a restore with performRestore false does not ask the artifact store,
\* leaves the matched-key slot and the cache-hit output as they were, and
\* writes no slot but the primary-key slot.
C6_RestoreNotRequested ==
  \A c \in Calls :
    (c.op = "restore" /\ c.flag = "false")
      => /\ c.fx.restoreCalls = <<>>
         /\ c.fx.saveCalls = <<>>
         /\ c.post[CACHE_MATCHED_KEY] = c.pre[CACHE_MATCHED_KEY]
         /\ c.fx.outputs = <<>>
         /\ c.postOutput = c.preOutput
         /\ \A i \in 1..Len(c.fx.stateWrites) :
              c.fx.stateWrites[i].name = STATE_CACHE_PRIMARY_KEY

\* after a restore that matched, a restore with performRestore false
\* persisted another primary key
C6_Witness ==
  \E c \in Restores :
    /\ c.flag = "false"
    /\ c.pre[CACHE_MATCHED_KEY] # EmptyString
    /\ c.preOutput # "unset"
    /\ c.post[STATE_CACHE_PRIMARY_KEY] # c.pre[STATE_CACHE_PRIMARY_KEY]

\* the restores whose request the artifact store answered without an error
Answered ==
  {c \in Restores : c.fx.restoreCalls # <<>> /\ c.answer.error = NoError}

\* C7: when a requested restore gets a matched key from the artifact store,
\* the matched-key slot holds that key, cache-hit is set to exactly
\* (matchedKey = primaryKey) and "Cache restored from key: <matchedKey>" is
\* logged.
C7_RestoreMatched ==
  \A c \in Answered :
    c.answer.matchedKey # EmptyString
      => /\ c.flag = "true"
         /\ c.post[CACHE_MATCHED_KEY] = c.answer.matchedKey
         /\ c.fx.outputs =
              << IF c.answer.matchedKey = c.post[STATE_CACHE_PRIMARY_KEY]
                   THEN "true" ELSE "false" >>
         /\ c.postOutput = c.fx.outputs[1]
         /\ c.fx.info =
              << Msg(<<"Cache restored from key: ", "<key>">>, c.answer.matchedKey) >>

\* the store matched an entry that is not the primary key
C7_Witness ==
  \E c \in Answered :
    /\ c.answer.matchedKey # EmptyString
    /\ c.answer.matchedKey # c.post[STATE_CACHE_PRIMARY_KEY]
    /\ c.postOutput = "false"

RestoreThenSave ==
  /\ ncalls = 2
  /\ calls[1].op = "restore" /\ calls[1].flag = "true"
  /\ calls[2].op = "save" /\ calls[2].flag = "false"
  /\ calls[1].id \in SupportedIds

\* the store answered the restore with an entry found through the fallback
\* key <prefix>-<platform>-<id>, not through the primary key
FallbackMatch(c) ==
  /\ c \in Answered
  /\ c.answer.matchedKey # EmptyString
  /\ c.answer.matchedKey # c.fx.restoreCalls[1].primaryKey
  /\ IsPrefix(<<CACHE_KEY_PREFIX, runnerOs, c.id>>, c.answer.matchedKey)

C10_SaveUsesPersistedKey ==
  /\ \A c \in Calls :
       c.op = "save"
         => /\ c.fx.hashCalls = <<>>
            /\ \A i \in 1..Len(c.fx.saveCalls) :
                 c.fx.saveCalls[i].key = c.pre[STATE_CACHE_PRIMARY_KEY]
  /\ (/\ Len(calls) = 2
      /\ calls[1] \in Restores
      /\ calls[2].op = "save")
       => \A i \in 1..Len(calls[2].fx.saveCalls) :
            calls[2].fx.saveCalls[i].key = calls[1].fx.debug[1].key

\* the save uploaded under the restored key although the working tree no
\* longer yields that key
C10_Witness ==
  /\ Len(calls) = 2
  /\ calls[1] \in Restores
  /\ calls[2].op = "save"
  /\ calls[2].fx.saveCalls # <<>>
  /\ calls[2].fx.saveCalls[1].key = calls[1].fx.debug[1].key
  /\ PrimaryKeyNow.key # calls[2].fx.saveCalls[1].key
  /\ nedits = 1

\* C11: a restore or save for an id outside {maven, gradle, sbt} throws
\* "unknown package manager specified: <id>" before it hashes, reads or
\* writes the persisted state, or asks the artifact store; for an id inside
\* the set the lookup succeeds.
C11_UnknownPackageManager ==
  \A c \in Calls :
    /\ c.id \notin SupportedIds
         => /\ c.fx.thrown = UnknownPackageManagerError(c.id)
            /\ c.fx.thrown.message = <<"unknown package manager specified: ", c.id>>
            /\ c.fx.hashCalls = <<>>
            /\ c.fx.stateReads = <<>>
            /\ c.fx.stateWrites = <<>>
            /\ c.fx.outputs = <<>>
            /\ c.fx.restoreCalls = <<>>
            /\ c.fx.saveCalls = <<>>
            /\ c.post = c.pre
            /\ c.postOutput = c.preOutput
    /\ c.id \in SupportedIds
         => c.fx.thrown # UnknownPackageManagerError(c.id)

\* a restore and a save for "ant" both threw
C11_Witness ==
  /\ Len(calls) = 2
  /\ calls[1].op = "restore" /\ calls[2].op = "save"
  /\ calls[1].id = "ant"
  /\ calls[1].fx.thrown = UnknownPackageManagerError("ant")
  /\ calls[2].fx.thrown = UnknownPackageManagerError("ant")

\* the restore calls made for a supported package manager
RestoresOf == {c \in Calls : c.op = "restore" /\ c.id \in SupportedIds}

\* the pattern lines restore is to hash for a call: the lines of the trimmed
\* override, or the defaults of the package manager
PatternLines(c) ==
  IF c.path # EmptyString
    THEN split(trim(c.path))
    ELSE findPackageManager(c.id, osType(runnerOs)).pattern

KeyHasHash(key) == Len(key) = 4 /\ key[4] # EmptyString

\* C12: when the hashing primitive gives the empty hash for the effective
\* patterns, restore throws "No file in <cwd> matched to [<effective
\* patterns>], make sure you have checked out the target repository", writes
\* no persisted state, sets no cache-hit and does not ask the artifact store;
\* no key with an empty hash is ever persisted or handed to the store.
C12_NoMatchingFile ==
  /\ \A c \in RestoresOf :
       hashFiles(join(PatternLines(c)), c.files) = EmptyString
         => /\ c.fx.thrown.message =
                 <<"No file in ", "<cwd>", " matched to [", "<pattern>",
                   "], make sure you have checked out the target repository">>
            /\ c.fx.thrown.pattern = PatternLines(c)
            /\ c.fx.debug = <<>>
            /\ c.fx.stateWrites = <<>>
            /\ c.post = c.pre
            /\ c.fx.outputs = <<>>
            /\ c.postOutput = c.preOutput
            /\ c.fx.restoreCalls = <<>>
  /\ \A c \in RestoresOf :
       /\ \A i \in 1..Len(c.fx.restoreCalls) :
            KeyHasHash(c.fx.restoreCalls[i].primaryKey)
       /\ \A i \in 1..Len(c.fx.stateWrites) :
            KeyHasHash(c.fx.stateWrites[i].value)
  /\ state[STATE_CACHE_PRIMARY_KEY] # EmptyString
       => KeyHasHash(state[STATE_CACHE_PRIMARY_KEY])

\* after a restore that succeeded the matched file was deleted, and the next
\* restore threw and left the persisted state and cache-hit of the first
C12_Witness ==
  /\ Len(calls) = 2
  /\ calls[1] \in Answered
  /\ calls[1].answer.matchedKey # EmptyString
  /\ calls[2] \in RestoresOf
  /\ calls[2].flag = "true"
  /\ calls[2].fx.thrown = NoFileError(PatternLines(calls[2]))
  /\ state = calls[1].post
  /\ output = calls[1].postOutput

\* the save calls that asked the artifact store and got an error
FailedSaves == {c \in Saves : c.fx.saveCalls # <<>> /\ c.answer.error # NoError}

\* C13: when the artifact store's save fails with an error named
\* ReserveCacheError, save returns without throwing, logs the error's message
\* as info, and logs neither a warning nor "Cache saved with the key".
C13_ReserveCacheErrorSwallowed ==
  \A c \in FailedSaves :
    c.answer.error.name = "ReserveCacheError"
      => /\ c.fx.thrown = NoError
         /\ c.fx.info = << Msg(c.answer.error.message, EmptyString) >>
         /\ c.fx.warning = <<>>
         /\ \A i \in 1..Len(c.fx.info) :
              c.fx.info[i].text[1] # "Cache saved with the key: "

\* a gradle save on Windows hit the reservation of another job
C13_Witness ==
  \E c \in FailedSaves :
    /\ c.answer.error = ReserveCacheError
    /\ c.id = "gradle" /\ runnerOs = "Windows"
    /\ c.fx.info # <<>>

\* C14: every other error of the artifact store's save is thrown by save
\* unchanged; the Gradle daemon warning is logged before that if and only if
\* the package manager is gradle, the platform is Windows and the error's
\* message starts with "Tar failed with error: ".
C14_OtherSaveErrorsRethrown ==
  \A c \in FailedSaves :
    c.answer.error.name # "ReserveCacheError"
      => /\ c.fx.thrown = c.answer.error
         /\ c.fx.info = <<>>
         /\ c.fx.warning =
              IF /\ c.id = "gradle"
                 /\ runnerOs = "Windows"
                 /\ c.answer.error.message[1] = "Tar failed with error: "
                THEN << GradleDaemonWarning >>
                ELSE <<>>

\* tar failed in a gradle save on Windows
C14_Witness ==
  \E c \in FailedSaves :
    /\ c.answer.error = TarError
    /\ c.id = "gradle" /\ runnerOs = "Windows"
    /\ c.fx.warning = << GradleDaemonWarning >>
    /\ c.fx.thrown = TarError

\* the lines of a pattern string, as a set
LinesOf(str) ==
  LET lines == split(str)
  IN {lines[i] : i \in 1..Len(lines)}

DefaultPatterns(id) ==
  LET pm == findPackageManager(id, osType(runnerOs))
  IN {pm.pattern[i] : i \in 1..Len(pm.pattern)}

\* C15: with a non-empty override, the patterns restore hands to hashFiles
\* are the lines of the trimmed override and nothing else: no default pattern
\* is added to them; with an empty override they are the package manager's
\* default patterns, in order, joined by newlines.
C15_OverrideReplacesDefaults ==
  \A c \in RestoresOf :
    LET override == trim(c.path)
        defaults == DefaultPatterns(c.id)
        handed == LinesOf(c.fx.hashCalls[1])
    IN /\ Len(c.fx.hashCalls) = 1
       /\ c.path # EmptyString
            => /\ c.fx.hashCalls[1] = override
               /\ split(c.fx.hashCalls[1]) = split(override)
               /\ \A d \in defaults :
                    d \notin LinesOf(override) => d \notin handed
       /\ c.path = EmptyString
            => /\ c.fx.hashCalls[1]
                    = join(findPackageManager(c.id, osType(runnerOs)).pattern)
               /\ handed = defaults

\* an override of two lines with a blank before and a newline after it
C15_Witness ==
  \E c \in Restores :
    /\ c.path # EmptyString
    /\ c.path # trim(c.path)
    /\ Len(split(c.fx.hashCalls[1])) = 2
    /\ DefaultPatterns(c.id) \cap LinesOf(c.fx.hashCalls[1]) = {}

\* the last two calls are restores for a supported package manager; platform,
\* package manager and override are those of the job
TwoRestores ==
  /\ Len(calls) = 2
  /\ calls[1] \in RestoresOf
  /\ calls[2] \in RestoresOf

RECURSIVE WritesTo(_, _)
WritesTo(name, writes) ==
  IF writes = <<>> THEN <<>>
  ELSE (IF Head(writes).name = name THEN <<Head(writes)>> ELSE <<>>)
         \o WritesTo(name, Tail(writes))

\* the key a restore call computed, empty when it threw before
KeyOf(c) == IF c.fx.debug = <<>> THEN EmptyString ELSE c.fx.debug[1].key

ChangedMatches(c, before, after) ==
  {p \in Paths :
     /\ after[p] # 0
     /\ after[p] # before[p]
     /\ \E l \in globPatterns(join(PatternLines(c))) : lineMatches(l, p)}

\* C17: when, between two restores of the job, a file the effective patterns
\* match got another content or a new file matching them was added, the
\* second restore persists a primary key different from the first's.
C17_KeyIsChangeSensitive ==
  (/\ Len(calls) = 2
   /\ calls[1] \in Restores
   /\ calls[2] \in Restores
   /\ ChangedMatches(calls[2], calls[1].files, calls[2].files) # {})
    => /\ calls[1].post[STATE_CACHE_PRIMARY_KEY] # calls[2].post[STATE_CACHE_PRIMARY_KEY]
       /\ state[STATE_CACHE_PRIMARY_KEY] = KeyOf(calls[2])
       /\ KeyOf(calls[1]) # KeyOf(calls[2])

\* a second .scala file was added under project/ between two sbt restores
C17_Witness ==
  /\ Len(calls) = 2
  /\ calls[1] \in Restores
  /\ calls[2] \in Restores
  /\ calls[1].id = "sbt"
  /\ calls[1].files[<<"project", "DependenciesV2.scala">>] = 0
  /\ calls[2].files[<<"project", "DependenciesV2.scala">>] # 0
  /\ calls[1].post[STATE_CACHE_PRIMARY_KEY] # calls[2].post[STATE_CACHE_PRIMARY_KEY]

\* C18: a restore called without the performRestore argument, for a supported
\* package manager whose dependency files are there, asks the artifact store
\* to restore.
C18_OmittedPerformRestoreRestores ==
  \A c \in Restores :
    c.flag = "undefined" => Len(c.fx.restoreCalls) = 1

\* the default patterns of gradle the tests name, in order
GradlePatternsOfTests ==
  << Pat(<<"**", "*.gradle*">>),
     Pat(<<"**", "gradle-wrapper.properties">>),
     Pat(<<"buildSrc", "**", "Versions.kt">>),
     Pat(<<"buildSrc", "**", "Dependencies.kt">>),
     Pat(<<"gradle", "*.versions.toml">>),
     Pat(<<"**", "versions.properties">>) >>

\* C19: a restore for gradle without an override hands hashFiles the six
\* patterns **/*.gradle*, **/gradle-wrapper.properties,
\* buildSrc/**/Versions.kt, buildSrc/**/Dependencies.kt,
\* gradle/*.versions.toml and **/versions.properties, in order, and so gets
\* past the key computation in a checkout that holds build.gradle.
C19_GradleDefaultPatterns ==
  \A c \in RestoresOf :
    (c.id = "gradle" /\ c.path = EmptyString)
      => /\ c.fx.hashCalls = << join(GradlePatternsOfTests) >>
         /\ c.files[<<"build.gradle">>] # 0
              => /\ c.fx.thrown # NoFileError(PatternLines(c))
                 /\ c.fx.debug # <<>>

\* C20: save writes no slot of the persisted state and does not set
\* cache-hit, whether it skips, saves, swallows the store's error or throws
\* it; a restore writes the primary-key slot at most once and the matched-key
\* slot at most once, and no other slot.
C20_RestoreIsTheOnlyWriter ==
  \A c \in Calls :
    /\ c.op = "save"
         => /\ c.fx.stateWrites = <<>>
            /\ c.fx.outputs = <<>>
            /\ c.post = c.pre
            /\ c.postOutput = c.preOutput
    /\ c.op = "restore"
         => /\ Len(WritesTo(STATE_CACHE_PRIMARY_KEY, c.fx.stateWrites)) <= 1
            /\ Len(WritesTo(CACHE_MATCHED_KEY, c.fx.stateWrites)) <= 1
            /\ \A i \in 1..Len(c.fx.stateWrites) :
                 c.fx.stateWrites[i].name \in {STATE_CACHE_PRIMARY_KEY, CACHE_MATCHED_KEY}

\* a restore wrote both slots, and the save after it stored the cache and
\* left both slots and cache-hit as the restore had set them
C20_Witness ==
  /\ Len(calls) = 2
  /\ calls[1] \in Restores
  /\ Len(calls[1].fx.stateWrites) = 2
  /\ calls[2].op = "save"
  /\ calls[2].answer.cacheId = "0"
  /\ calls[2].fx.info # <<>>
  /\ state = calls[1].post
  /\ output = calls[1].postOutput

\* a job that started with empty persisted state and ran one restore and
\* then one save with forceUpdate false
OneRestoreOneSave ==
  /\ ncalls = 2
  /\ calls[1].op = "restore"
  /\ calls[1].pre = EmptyState
  /\ calls[2].op = "save" /\ calls[2].flag = "false"

PersistedPrimaryKey(c) == c.post[STATE_CACHE_PRIMARY_KEY] # EmptyString

ExactHit(c) == c.postOutput = "true"

Uploads(c) == c.fx.saveCalls # <<>>

\* C21 as stated: in a job of one restore and one unforced save, the artifact
\* store's save is asked if and only if the restore persisted a primary key
\* and cache-hit is not true; cache-hit true means no upload, and a restore
\* with performRestore false always leads to an upload.
C21_UploadIffNoExactHit ==
  OneRestoreOneSave
    => /\ Uploads(calls[2]) <=> (PersistedPrimaryKey(calls[1]) /\ ~ExactHit(calls[1]))
       /\ ExactHit(calls[1]) => ~Uploads(calls[2])
       /\ calls[1].flag = "false" => Uploads(calls[2])

\* C21, amended: in a job of one restore and one unforced save, the artifact
\* store's save is asked if and only if the restore persisted a primary key
\* and cache-hit is not true; cache-hit true means no upload, and a restore
\* with performRestore false that persisted its key leads to an upload.
C21_UploadIffKeyAndNoExactHit ==
  OneRestoreOneSave
    => /\ Uploads(calls[2]) <=> (PersistedPrimaryKey(calls[1]) /\ ~ExactHit(calls[1]))
       /\ ExactHit(calls[1]) => ~Uploads(calls[2])
       /\ (calls[1].flag = "false" /\ PersistedPrimaryKey(calls[1]))
            => /\ Uploads(calls[2])
               /\ calls[2].fx.saveCalls[1].key = calls[1].post[STATE_CACHE_PRIMARY_KEY]
       /\ (calls[1].flag = "false" /\ ~PersistedPrimaryKey(calls[1]))
            => ~Uploads(calls[2])

\* a restore with performRestore false persisted its key, and the save after
\* it stored the cache under that key
C21_Witness ==
  /\ OneRestoreOneSave
  /\ calls[1].flag = "false"
  /\ PersistedPrimaryKey(calls[1])
  /\ Uploads(calls[2])
  /\ calls[2].answer.cacheId = "0"
  /\ calls[1].post[STATE_CACHE_PRIMARY_KEY] \in entries

\* the restores whose request to the artifact store failed
FailedRestores ==
  {c \in RestoresOf : c.fx.restoreCalls # <<>> /\ c.answer.error # NoError}

\* C22: restore persists the primary key before it asks the artifact store:
\* when the store's restore fails, restore throws that error unchanged, the
\* primary-key slot holds the computed key, the matched-key slot and
\* cache-hit are not written, and a following save with forceUpdate false
\* asks the store to save under that key (unless the matched-key slot held
\* that very key from before).
C22_KeyPersistedBeforeStoreFailure ==
  /\ \A c \in FailedRestores :
       /\ c.fx.thrown = c.answer.error
       /\ c.fx.stateWrites =
            << [name |-> STATE_CACHE_PRIMARY_KEY, value |-> KeyOf(c)] >>
       /\ KeyOf(c) # EmptyString
       /\ KeyOf(c) = c.fx.restoreCalls[1].primaryKey
       /\ c.post[STATE_CACHE_PRIMARY_KEY] = KeyOf(c)
       /\ c.post[CACHE_MATCHED_KEY] = c.pre[CACHE_MATCHED_KEY]
       /\ c.fx.outputs = <<>>
       /\ c.postOutput = c.preOutput
  /\ (/\ Len(calls) = 2
      /\ calls[1] \in FailedRestores
      /\ calls[2].op = "save" /\ calls[2].flag = "false"
      /\ calls[1].pre[CACHE_MATCHED_KEY] # KeyOf(calls[1]))
       => calls[2].fx.saveCalls =
            << [paths |-> calls[1].fx.restoreCalls[1].paths, key |-> KeyOf(calls[1])] >>

\* the store failed the job's restore, and the unforced save after it stored
\* the cache under the key the restore had persisted
C22_Witness ==
  /\ ncalls = 2
  /\ calls[1] \in FailedRestores
  /\ calls[1].pre = EmptyState
  /\ calls[2].op = "save" /\ calls[2].flag = "false"
  /\ calls[2].answer.cacheId = "0"
  /\ KeyOf(calls[1]) \in entries

\* the concurrent save of job j returned or threw
Done(j) == procs[j].pc = "done"

\* the store stored the cache that job j uploaded
Stored(j) == procs[j].answer.cacheId = "0"

\* the store refused job j the reservation
Refused(j) == procs[j].answer.error = ReserveCacheError

\* C23: when two jobs that hold the same primary key and no exact hit run
\* save side by side against one store that reserves keys, then however
\* their steps interleave at most one of them stores the cache under the
\* key, the other is refused with ReserveCacheError and swallows it, and a
\* save that the store answered with success or that refusal ends without
\* throwing.
C23_ConcurrentSavesAreBenign ==
  /\ \A j, k \in JobIds :
       procs[j].getState[STATE_CACHE_PRIMARY_KEY]
         = procs[k].getState[STATE_CACHE_PRIMARY_KEY]
  /\ Cardinality({j \in JobIds : Stored(j)}) <= 1
  /\ Cardinality({j \in JobIds : procs[j].pc = "upload"}) <= 1
  /\ \A j \in JobIds :
       (Done(j) /\ Refused(j))
         => /\ procs[j].fx.thrown = NoError
            /\ procs[j].fx.info = << Msg(ReserveCacheError.message, EmptyString) >>
            /\ procs[j].fx.warning = <<>>
  /\ \A j, k \in JobIds :
       (j # k /\ Stored(j) /\ Done(k))
         => /\ Refused(k)
            /\ procs[k].fx.thrown = NoError
  /\ \A j \in JobIds :
       (Done(j) /\ (Stored(j) \/ Refused(j))) => procs[j].fx.thrown = NoError

\* both saves are over: the first stored the cache, the second was refused
\* and logged the refusal
C23_Witness ==
  /\ Done(1) /\ Done(2)
  /\ Stored(1)
  /\ Refused(2)
  /\ procs[1].fx.thrown = NoError
  /\ procs[2].fx.thrown = NoError
  /\ procs[2].fx.info # <<>>
  /\ procs[1].getState[STATE_CACHE_PRIMARY_KEY] \in entries

====
